---- MODULE Spec2Model ----
(***************************************************************************)
(* pyproteolizard/data.py: the Python layer over the native timsTOF data   *)
(* handle.  PyTimsDataHandle loads the Frames table of analysis.tdf with   *)
(* pandas and delegates frame and slice retrieval to the native            *)
(* ExposedTimsDataHandle; TimsFrame and TimsSlice wrap native frame and    *)
(* slice pointers.  The native library is not part of the Python sources:  *)
(* its operations, named Native_..., follow the written specification.     *)
(***************************************************************************)
EXTENDS Integers, Sequences, FiniteSets, TLC

VARIABLES tdf, handle, obj, ret

vars == <<tdf, handle, obj, ret>>

(***************************************************************************)
(* Bounds of the model.                                                    *)
(***************************************************************************)
MaxFrameId == 2
MaxTime == 1
MaxIds == 1
MaxEvents == 2
MaxSliceFrames == 2

(***************************************************************************)
(* Value domains.                                                          *)
(***************************************************************************)
FrameIds == 1..MaxFrameId
Times == 0..MaxTime
\* Frames.MsMsType: 0 tags a precursor frame, any other value a fragment frame
MsMsTypes == {0, 8, 9}
Scans == {0, 1}
Mzs == {500, 501}
Intensities == {0, 10}

SeqsUpTo(S, n) == UNION {[1..k -> S] : k \in 0..n}

Range(s) == {s[i] : i \in 1..Len(s)}

None == [type |-> "None"]

(***************************************************************************)
(* The experiment directory: analysis.tdf holds the Frames table, one row  *)
(* per frame, Id being its INTEGER PRIMARY KEY (unique, and the order of   *)
(* SELECT * FROM Frames).                                                  *)
(***************************************************************************)
Rows == [Id : FrameIds, Time : Times, MsMsType : MsMsTypes]

FramesTables ==
    {t \in SeqsUpTo(Rows, MaxFrameId) : \A i, j \in 1..Len(t) : i < j => t[i].Id < t[j].Id}

Column(table, col) == [i \in 1..Len(table) |-> table[i][col]]

(***************************************************************************)
(* Frames as the native library hands them out: a frame id and the frame's *)
(* events in storage order.                                                *)
(***************************************************************************)
Events == [scan : Scans, mz : Mzs, intensity : Intensities]

AllEvents ==
    << [scan |-> 1, mz |-> 500, intensity |-> 10], [scan |-> 0, mz |-> 501, intensity |-> 0],
       [scan |-> 0, mz |-> 500, intensity |-> 10], [scan |-> 1, mz |-> 501, intensity |-> 10],
       [scan |-> 1, mz |-> 500, intensity |-> 0],  [scan |-> 0, mz |-> 500, intensity |-> 0],
       [scan |-> 1, mz |-> 501, intensity |-> 0],  [scan |-> 0, mz |-> 501, intensity |-> 10] >>

\* the content of analysis.tdf_bin for a frame: every event of the domain for
\* one frame in three, a short frame with a repeated event for the next, no
\* event at all for the third
BinEvents(frame_id) ==
    IF frame_id % 3 = 1 THEN AllEvents
    ELSE IF frame_id % 3 = 2
         THEN << AllEvents[4], AllEvents[2], AllEvents[4] >>
         ELSE << >>

FramePL(frame_id, events) == [type |-> "Frame", frame_id |-> frame_id, events |-> events]

SlicePL(precursors, fragments) ==
    [type |-> "Slice", precursors |-> precursors, fragments |-> fragments]

StoredFrame(frame_id) == FramePL(frame_id, BinEvents(frame_id))

StoredFrames(frame_ids) == [i \in 1..Len(frame_ids) |-> StoredFrame(frame_ids[i])]

(***************************************************************************)
(* Outcomes of a call: a returned value or a raised exception.             *)
(***************************************************************************)
Return(val) == [kind |-> "ok", id |-> 0, val |-> val]

Raise(kind, id) == [kind |-> kind, id |-> id, val |-> None]

NoCall == [op |-> "none", args |-> None, out |-> Return(None)]

Call(op, args, out) == [op |-> op, args |-> args, out |-> out]

(***************************************************************************)
(* libproteolizard, the native side.  ExposedTimsDataHandle(dp, bp) opens  *)
(* the experiment and serves the frames its Frames table indexes.          *)
(***************************************************************************)
Native_ExposedTimsDataHandle(table) == {table[i].Id : i \in 1..Len(table)}

Native_getFrame(stored, frame_id) ==
    IF frame_id \in stored
    THEN Return(StoredFrame(frame_id))
    ELSE Raise("NotFound", frame_id)

Native_getSlice(stored, precursor_ids, fragment_ids) ==
    LET named == precursor_ids \o fragment_ids
        absent == {i \in 1..Len(named) : named[i] \notin stored}
        first == CHOOSE i \in absent : \A j \in absent : i <= j
    IN  IF absent # {}
        THEN Raise("NotFound", named[first])
        ELSE Return(SlicePL(StoredFrames(precursor_ids), StoredFrames(fragment_ids)))

(***************************************************************************)
(* class TimsFrame, class TimsSlice: the constructors keep the pointer.    *)
(***************************************************************************)
TimsFrame(frame_pointer) == frame_pointer

TimsSlice(slice_ptr) == slice_ptr

(***************************************************************************)
(* Native frame and slice operations.  filterRanged keeps the events       *)
(* inside the inclusive scan and mass ranges whose intensity is at least   *)
(* intensity_min, in their order; on a slice it filters every frame of     *)
(* both partitions and keeps the frames it empties.  operator+ refuses     *)
(* frames of different ids and otherwise concatenates their events.        *)
(***************************************************************************)
Native_TimsFrame_filterRanged(frame, scan_min, scan_max, mz_min, mz_max, intensity_min) ==
    LET Keep(e) == /\ scan_min <= e.scan /\ e.scan <= scan_max
                   /\ mz_min <= e.mz /\ e.mz <= mz_max
                   /\ e.intensity >= intensity_min
    IN  FramePL(frame.frame_id, SelectSeq(frame.events, Keep))

Native_TimsSlice_filterRanged(slice, scan_min, scan_max, mz_min, mz_max, intensity_min) ==
    LET f(frame) == Native_TimsFrame_filterRanged(frame, scan_min, scan_max,
                                                  mz_min, mz_max, intensity_min)
    IN  SlicePL([i \in 1..Len(slice.precursors) |-> f(slice.precursors[i])],
                [i \in 1..Len(slice.fragments) |-> f(slice.fragments[i])])

Native_TimsFrame_plus(left, right) ==
    IF left.frame_id # right.frame_id
    THEN Raise("IdentityMismatch", right.frame_id)
    ELSE Return(FramePL(left.frame_id, left.events \o right.events))

(***************************************************************************)
(* class TimsFrame                                                         *)
(***************************************************************************)
TimsFrame_frame_id(self) == self.frame_id

\* mutant: the exception of the native sum is swallowed and self returned
TimsFrame___add___swallowing(self, other) ==
    LET sum == Native_TimsFrame_plus(self, other)
    IN  IF sum.kind = "ok" THEN Return(TimsFrame(sum.val)) ELSE Return(self)

TimsFrame___add__(self, other) ==
    LET sum == Native_TimsFrame_plus(self, other)
    IN  IF sum.kind = "ok" THEN Return(TimsFrame(sum.val)) ELSE sum

\* mutant: the mass bounds are handed over in the place of the scan bounds
TimsFrame_filter_ranged_swapped(self, scan_min, scan_max, mz_min, mz_max, intensity_min) ==
    TimsFrame(Native_TimsFrame_filterRanged(self, mz_min, mz_max,
                                            scan_min, scan_max, intensity_min))

TimsFrame_filter_ranged(self, scan_min, scan_max, mz_min, mz_max, intensity_min) ==
    TimsFrame(Native_TimsFrame_filterRanged(self, scan_min, scan_max,
                                            mz_min, mz_max, intensity_min))

(***************************************************************************)
(* class TimsSlice                                                         *)
(***************************************************************************)
TimsSlice_get_precursor_frames(self) ==
    [i \in 1..Len(self.precursors) |-> TimsFrame(self.precursors[i])]

TimsSlice_get_fragment_frames(self) ==
    [i \in 1..Len(self.fragments) |-> TimsFrame(self.fragments[i])]

\* mutant: the arguments are handed over in the order the method takes them
TimsSlice_filter_ranged_unordered(self, mz_min, mz_max, scan_min, scan_max, intensity_min) ==
    TimsSlice(Native_TimsSlice_filterRanged(self, mz_min, mz_max,
                                            scan_min, scan_max, intensity_min))

TimsSlice_filter_ranged(self, mz_min, mz_max, scan_min, scan_max, intensity_min) ==
    TimsSlice(Native_TimsSlice_filterRanged(self, scan_min, scan_max,
                                            mz_min, mz_max, intensity_min))

(***************************************************************************)
(* class PyTimsDataHandle                                                  *)
(***************************************************************************)
Unconstructed ==
    [state |-> "unconstructed", precursor_frames |-> <<>>, fragment_frames |-> <<>>,
     meta_data |-> <<>>, has_handle |-> FALSE, stored |-> {}]

IsPrecursorRow(row) == row.MsMsType = 0

IsFragmentRow(row) == row.MsMsType # 0

PyTimsDataHandle___get_precursor_frame_ids(table) ==
    Column(SelectSeq(table, IsPrecursorRow), "Id")

PyTimsDataHandle___get_fragment_frame_ids(table) ==
    Column(SelectSeq(table, IsFragmentRow), "Id")

PyTimsDataHandle___get_meta_data(table) == table

\* __init__: the three queries run first and their exception leaves the
\* constructor; the exception of the native constructor is caught and printed,
\* and the object is returned with no __handle attribute.
PyTimsDataHandle___init__(table, tdf_readable, handle_acquired) ==
    IF ~tdf_readable
    THEN [Unconstructed EXCEPT !.state = "raised"]
    ELSE [state |-> "constructed",
          precursor_frames |-> PyTimsDataHandle___get_precursor_frame_ids(table),
          fragment_frames |-> PyTimsDataHandle___get_fragment_frame_ids(table),
          meta_data |-> PyTimsDataHandle___get_meta_data(table),
          has_handle |-> handle_acquired,
          stored |-> IF handle_acquired THEN Native_ExposedTimsDataHandle(table) ELSE {}]

\* mutant: a frame the native handle does not find is answered as an empty frame
PyTimsDataHandle_get_frame_empty(self, frame_id) ==
    IF ~self.has_handle
    THEN Raise("AttributeError", 0)
    ELSE LET frame_pointer == Native_getFrame(self.stored, frame_id)
         IN  IF frame_pointer.kind = "ok"
             THEN Return(TimsFrame(frame_pointer.val))
             ELSE Return(TimsFrame(FramePL(frame_id, <<>>)))

PyTimsDataHandle_get_frame(self, frame_id) ==
    IF ~self.has_handle
    THEN Raise("AttributeError", 0)
    ELSE LET frame_pointer == Native_getFrame(self.stored, frame_id)
         IN  IF frame_pointer.kind = "ok"
             THEN Return(TimsFrame(frame_pointer.val))
             ELSE frame_pointer

PyTimsDataHandle_get_slice(self, precursor_ids, fragment_ids) ==
    IF ~self.has_handle
    THEN Raise("AttributeError", 0)
    ELSE LET slice_ptr == Native_getSlice(self.stored, precursor_ids, fragment_ids)
         IN  IF slice_ptr.kind = "ok"
             THEN Return(TimsSlice(slice_ptr.val))
             ELSE slice_ptr

\* mutant: the window is open at both ends
PyTimsDataHandle___get_frame_ids_by_type_rt_range_open(self, rt_start, rt_stop) ==
    LET InRange(row) == rt_start < row.Time /\ row.Time < rt_stop
        frames == SelectSeq(self.meta_data, InRange)
    IN  << Column(SelectSeq(frames, IsPrecursorRow), "Id"),
           Column(SelectSeq(frames, IsFragmentRow), "Id") >>

PyTimsDataHandle___get_frame_ids_by_type_rt_range(self, rt_start, rt_stop) ==
    LET InRange(row) == rt_start <= row.Time /\ row.Time <= rt_stop
        frames == SelectSeq(self.meta_data, InRange)
    IN  << Column(SelectSeq(frames, IsPrecursorRow), "Id"),
           Column(SelectSeq(frames, IsFragmentRow), "Id") >>

\* the ids handed to get_slice, and what get_slice answers
PyTimsDataHandle_get_slice_rt_range(self, rt_min, rt_max) ==
    LET ids == PyTimsDataHandle___get_frame_ids_by_type_rt_range(self, rt_min, rt_max)
    IN  [prec_ids |-> ids[1], frag_ids |-> ids[2],
         out |-> PyTimsDataHandle_get_slice(self, ids[1], ids[2])]

\* dict(zip(Id, Time)): a later row of the same Id replaces an earlier one
ZipDict(keys, values) ==
    [k \in Range(keys) |->
        values[CHOOSE i \in 1..Len(keys) :
                  keys[i] = k /\ \A j \in 1..Len(keys) : keys[j] = k => j <= i]]

RECURSIVE Lookup(_, _)
Lookup(d, frames) ==
    IF frames = <<>> THEN Return(<<>>)
    ELSE IF Head(frames) \notin DOMAIN d THEN Raise("KeyError", Head(frames))
    ELSE LET rest == Lookup(d, Tail(frames))
         IN  IF rest.kind = "ok" THEN Return(<<d[Head(frames)]>> \o rest.val) ELSE rest

\* mutant: ids the dict does not hold are skipped
PyTimsDataHandle_frames_to_rts_dropping(self, frames) ==
    LET d == ZipDict(Column(self.meta_data, "Id"), Column(self.meta_data, "Time"))
        Known(x) == x \in DOMAIN d
    IN  Lookup(d, SelectSeq(frames, Known))

PyTimsDataHandle_frames_to_rts(self, frames) ==
    LET d == ZipDict(Column(self.meta_data, "Id"), Column(self.meta_data, "Time"))
    IN  Lookup(d, frames)

(***************************************************************************)
(* The caller: constructs one handle and calls a method of it.  No method  *)
(* writes to the handle and no answer depends on an earlier call, so each  *)
(* call is taken from the state the constructor leaves.                    *)
(***************************************************************************)
QueryIds == 1..(MaxFrameId + 1)

IdLists == SeqsUpTo(QueryIds, MaxIds)

Init ==
    /\ tdf \in FramesTables
    /\ handle = Unconstructed
    /\ obj = None
    /\ ret = NoCall

Construct ==
    /\ handle.state = "unconstructed"
    /\ \E tdf_readable \in BOOLEAN, handle_acquired \in BOOLEAN :
          handle' = PyTimsDataHandle___init__(tdf, tdf_readable, handle_acquired)
    /\ UNCHANGED <<tdf, obj, ret>>

GetFrame ==
    /\ handle.state = "constructed"
    /\ ret = NoCall
    /\ \E frame_id \in QueryIds :
          ret' = Call("get_frame", [frame_id |-> frame_id],
                      PyTimsDataHandle_get_frame(handle, frame_id))
    /\ UNCHANGED <<tdf, handle, obj>>

GetSlice ==
    /\ handle.state = "constructed"
    /\ ret = NoCall
    /\ \E precursor_ids \in IdLists, fragment_ids \in IdLists :
          ret' = Call("get_slice",
                      [precursor_ids |-> precursor_ids, fragment_ids |-> fragment_ids],
                      PyTimsDataHandle_get_slice(handle, precursor_ids, fragment_ids))
    /\ UNCHANGED <<tdf, handle, obj>>

GetSliceRtRange ==
    /\ handle.state = "constructed"
    /\ ret = NoCall
    /\ \E rt_min \in Times, rt_max \in Times :
          LET r == PyTimsDataHandle_get_slice_rt_range(handle, rt_min, rt_max)
          IN  ret' = Call("get_slice_rt_range",
                          [rt_min |-> rt_min, rt_max |-> rt_max,
                           precursor_ids |-> r.prec_ids, fragment_ids |-> r.frag_ids],
                          r.out)
    /\ UNCHANGED <<tdf, handle, obj>>

FramesToRts ==
    /\ handle.state = "constructed"
    /\ ret = NoCall
    /\ \E frames \in SeqsUpTo(QueryIds, MaxIds + 1) :
          ret' = Call("frames_to_rts", [frames |-> frames, meta_data |-> handle.meta_data],
                      PyTimsDataHandle_frames_to_rts(handle, frames))
    /\ UNCHANGED <<tdf, handle, obj>>

Next == Construct \/ GetFrame \/ GetSlice \/ GetSliceRtRange \/ FramesToRts

Spec == Init /\ [][Next]_vars

(***************************************************************************)
(* Frames on their own: the caller holds a frame and makes one call on it: *)
(* filters it, and then the result once more with the same bounds, or adds *)
(* another frame to it.                                                    *)
(***************************************************************************)
Frames == {FramePL(i, evs) : i \in FrameIds, evs \in SeqsUpTo(Events, MaxEvents)}

OtherFrames == {FramePL(i, evs) : i \in FrameIds, evs \in SeqsUpTo(Events, 1)}

FilterArgs ==
    [scan_min : Scans, scan_max : Scans, mz_min : Mzs, mz_max : Mzs,
     intensity_min : Intensities]

InitFrame ==
    /\ tdf = <<>>
    /\ handle = Unconstructed
    /\ obj \in Frames
    /\ ret = NoCall

FrameFilterRanged ==
    /\ ret = NoCall
    /\ \E a \in FilterArgs :
          ret' = Call("filter_ranged", [bounds |-> a, once |-> None],
                      Return(TimsFrame_filter_ranged(obj, a.scan_min, a.scan_max,
                                                     a.mz_min, a.mz_max, a.intensity_min)))
    /\ UNCHANGED <<tdf, handle, obj>>

FrameFilterRangedAgain ==
    /\ ret.op = "filter_ranged"
    /\ LET a == ret.args.bounds
           once == ret.out.val
       IN  ret' = Call("filter_ranged_twice", [bounds |-> a, once |-> once],
                       Return(TimsFrame_filter_ranged(once, a.scan_min, a.scan_max,
                                                      a.mz_min, a.mz_max, a.intensity_min)))
    /\ UNCHANGED <<tdf, handle, obj>>

FrameAdd ==
    /\ ret = NoCall
    /\ \E other \in OtherFrames :
          ret' = Call("__add__", [self |-> obj, other |-> other],
                      TimsFrame___add__(obj, other))
    /\ UNCHANGED <<tdf, handle, obj>>

NextFrame == FrameFilterRanged \/ FrameFilterRangedAgain \/ FrameAdd

SpecFrame == InitFrame /\ [][NextFrame]_vars

(***************************************************************************)
(* Slices on their own: the caller holds a slice of stored frames and      *)
(* filters it.                                                             *)
(***************************************************************************)
Slices ==
    {SlicePL(StoredFrames(p), StoredFrames(f)) :
        p \in SeqsUpTo(FrameIds, MaxSliceFrames), f \in SeqsUpTo(FrameIds, MaxSliceFrames)}

InitSlice ==
    /\ tdf = <<>>
    /\ handle = Unconstructed
    /\ obj \in Slices
    /\ ret = NoCall

SliceFilterRanged ==
    /\ ret = NoCall
    /\ \E a \in FilterArgs :
          ret' = Call("slice_filter_ranged", [bounds |-> a],
                      Return(TimsSlice_filter_ranged(obj, a.mz_min, a.mz_max,
                                                     a.scan_min, a.scan_max,
                                                     a.intensity_min)))
    /\ UNCHANGED <<tdf, handle, obj>>

NextSlice == SliceFilterRanged

SpecSlice == InitSlice /\ [][NextSlice]_vars

(***************************************************************************)
(* Properties.                                                             *)
(***************************************************************************)
MetaIds(self) == {self.meta_data[i].Id : i \in 1..Len(self.meta_data)}

InWindow(self, lo, hi) ==
    {i \in 1..Len(self.meta_data) : lo <= self.meta_data[i].Time /\ self.meta_data[i].Time <= hi}

FrameIdsOf(frames) == {TimsFrame_frame_id(frames[i]) : i \in 1..Len(frames)}

Kept(events, a) ==
    LET Keep(e) == /\ a.scan_min <= e.scan /\ e.scan <= a.scan_max
                   /\ a.mz_min <= e.mz /\ e.mz <= a.mz_max
                   /\ e.intensity >= a.intensity_min
    IN  SelectSeq(events, Keep)

\* C1: construction is atomic: the caller holds a handle only if both the
\* metadata load and the acquisition of the storage handle succeeded; in every
\* other case construction failed and no handle is exposed.
C1_ConstructionAtomic ==
    handle.state = "constructed" => handle.has_handle

\* C2: the precursor ids get_slice_rt_range hands to get_slice are exactly the
\* ids of the rows with rt_min <= Time <= rt_max and MsMsType = 0, the fragment
\* ids exactly those of the rows in the window with MsMsType # 0, each once.
C2_RtRangeInclusiveByTag ==
    ret.op = "get_slice_rt_range" =>
        LET a == ret.args
            m == handle.meta_data
            w == InWindow(handle, a.rt_min, a.rt_max)
        IN  /\ Range(a.precursor_ids) = {m[i].Id : i \in {j \in w : m[j].MsMsType = 0}}
            /\ Range(a.fragment_ids) = {m[i].Id : i \in {j \in w : m[j].MsMsType # 0}}
            /\ Len(a.precursor_ids) = Cardinality(Range(a.precursor_ids))
            /\ Len(a.fragment_ids) = Cardinality(Range(a.fragment_ids))

C2_Witness ==
    /\ ret.op = "get_slice_rt_range"
    /\ ret.args.rt_min = ret.args.rt_max
    /\ ret.args.precursor_ids = <<>>
    /\ ret.args.fragment_ids # <<>>
    /\ \E i \in 1..Len(handle.meta_data) :
          handle.meta_data[i].MsMsType = 0 /\ handle.meta_data[i].Time # ret.args.rt_min

\* C3: get_slice is all-or-nothing: with any named id absent the call fails
\* with NotFound naming an absent id and returns no Slice; a Slice is returned
\* only when every named id was found, and holds exactly the named frames.
C3_GetSliceAllOrNothing ==
    ret.op = "get_slice" =>
        LET a == ret.args
            named == a.precursor_ids \o a.fragment_ids
            absent == Range(named) \ MetaIds(handle)
        IN  /\ absent # {} => /\ ret.out.kind = "NotFound"
                              /\ ret.out.id \in absent
                              /\ ret.out.val = None
            /\ ret.out.kind = "ok" =>
                  /\ absent = {}
                  /\ TimsSlice_get_precursor_frames(ret.out.val)
                        = StoredFrames(a.precursor_ids)
                  /\ TimsSlice_get_fragment_frames(ret.out.val)
                        = StoredFrames(a.fragment_ids)

C5_FramesToRtsNoSilentDrop ==
    ret.op = "frames_to_rts" =>
        LET frames == ret.args.frames
            m == handle.meta_data
        IN  /\ IF Range(frames) \subseteq MetaIds(handle)
               THEN /\ ret.out.kind = "ok"
                    /\ Len(ret.out.val) = Len(frames)
                    /\ \A i \in 1..Len(frames) :
                          \E r \in 1..Len(m) :
                             m[r].Id = frames[i] /\ m[r].Time = ret.out.val[i]
               ELSE /\ ret.out.kind = "KeyError"
                    /\ ret.out.id \in Range(frames) \ MetaIds(handle)
                    /\ ret.out.val = None
            /\ handle.meta_data = ret.args.meta_data
            /\ handle.meta_data = tdf

C5_Witness ==
    /\ ret.op = "frames_to_rts"
    /\ ret.out.kind = "ok"
    /\ Len(ret.args.frames) = 2
    /\ ret.args.frames[1] > ret.args.frames[2]
    /\ ret.out.val[1] # ret.out.val[2]

\* C6: in every Slice the handle hands out no frame id is in both the
\* precursor partition and the fragment partition.
C6_OnePartitionPerFrame ==
    (ret.op \in {"get_slice", "get_slice_rt_range"} /\ ret.out.kind = "ok") =>
        FrameIdsOf(TimsSlice_get_precursor_frames(ret.out.val))
            \cap FrameIdsOf(TimsSlice_get_fragment_frames(ret.out.val)) = {}

\* C7: get_slice_rt_range over a window no row falls in returns a Slice with
\* an empty precursor partition and an empty fragment partition, not an error.
C7_EmptyWindowEmptySlice ==
    (ret.op = "get_slice_rt_range" /\ InWindow(handle, ret.args.rt_min, ret.args.rt_max) = {}) =>
        /\ ret.out.kind = "ok"
        /\ ret.out.val.type = "Slice"
        /\ TimsSlice_get_precursor_frames(ret.out.val) = <<>>
        /\ TimsSlice_get_fragment_frames(ret.out.val) = <<>>
====
